---------------------------- MODULE Spec2Model ----------------------------
(***************************************************************************)
(* Model of pcl::SampleConsensusModelNonRigid (sac_non_rigid.h).           *)
(*                                                                         *)
(* State: the members of one model object.  Init is the set of states the  *)
(* two constructors leave behind; every public configuration method is one *)
(* action.  The scoring methods are only declared in the header (their     *)
(* bodies live in sac_non_rigid.hpp); they are modelled from the design    *)
(* document and kept in a separate specification, SpecScore.               *)
(*                                                                         *)
(* Data abstraction: a point is its x coordinate (y = z = 0), so a cloud   *)
(* is a sequence of integers.  For such points the normalised covariance   *)
(* matrix has the eigenvalues (var, 0, 0), hence the sample distance       *)
(* threshold (sqrt(var) / 3)^2 is the rational var / 9, kept here as a     *)
(* reduced fraction <<numerator, denominator>>.                            *)
(***************************************************************************)
EXTENDS Integers, Sequences, FiniteSets, TLC

VARIABLES
  input_,              \* SampleConsensusModel::input_   : the source cloud
  indices_,            \* SampleConsensusModel::indices_ : source point indices
  target_,             \* target cloud pointer (Null until a target is set)
  indices_tgt_,        \* target indices pointer (Null until a target is set)
  correspondences_,    \* unordered_map<int,int> : source index -> target index
  sample_dist_thresh_, \* double, as a reduced fraction
  call                 \* the last method called and what it handed back

vars == <<input_, indices_, target_, indices_tgt_, correspondences_,
          sample_dist_thresh_, call>>

(***************************************************************************)
(* Bounds and input sets                                                   *)
(***************************************************************************)
\* longest index vector a caller passes in
MaxIdx == 2

\* the clouds callers pass in (x coordinates of the points)
Clouds == { <<>>, <<0>>, <<0, 2>>, <<1, 1>> }

\* 0-based point indices that are in range for a cloud
PointIndices(cloud) == 0 .. (Len(cloud) - 1)

\* all index vectors of length <= MaxIdx over the indices of a cloud
IndexVectors(cloud) ==
  UNION { [1 .. n -> PointIndices(cloud)] : n \in 0 .. MaxIdx }

(***************************************************************************)
(* Pointers: a shared_ptr is either null or holds a value                  *)
(***************************************************************************)
Null == [ptr |-> FALSE, val |-> <<>>]
Ptr(v) == [ptr |-> TRUE, val |-> v]

\* an empty unordered_map
EmptyMap == [k \in {} |-> 0]

\* std::vector filled with 0 .. n-1
Iota(n) == [i \in 1 .. n |-> i - 1]

(***************************************************************************)
(* computeOriginalIndexMapping                                             *)
(***************************************************************************)
\* correspondences_[k] = v
Put(m, k, v) == [x \in (DOMAIN m) \cup {k} |-> IF x = k THEN v ELSE m[x]]

RECURSIVE MapLoop(_, _, _, _)
\* the for loop of computeOriginalIndexMapping, from position i on
MapLoop(m, ind, tgt, i) ==
  IF i > Len(ind) THEN m
  ELSE MapLoop(Put(m, ind[i], tgt[i]), ind, tgt, i + 1)

RECURSIVE MapLoopFirstWins(_, _, _, _)
\* variant: an index already in the map keeps its first target
MapLoopFirstWins(m, ind, tgt, i) ==
  IF i > Len(ind) THEN m
  ELSE MapLoopFirstWins(IF ind[i] \in DOMAIN m THEN m ELSE Put(m, ind[i], tgt[i]),
                        ind, tgt, i + 1)

\* variant: map.insert instead of map[k] = v, which never overwrites
computeOriginalIndexMapping_FirstWins(m, ind, tgtp) ==
  IF ~tgtp.ptr \/ Len(ind) = 0 \/ Len(ind) # Len(tgtp.val)
  THEN m
  ELSE MapLoopFirstWins(m, ind, tgtp.val, 1)

\* variant: the loop stops one position early
computeOriginalIndexMapping_OffByOne(m, ind, tgtp) ==
  IF ~tgtp.ptr \/ Len(ind) = 0 \/ Len(ind) # Len(tgtp.val)
  THEN m
  ELSE MapLoop(m, SubSeq(ind, 1, Len(ind) - 1), tgtp.val, 1)

\* the map after computeOriginalIndexMapping, given the map before it, the
\* source indices and the target indices pointer
computeOriginalIndexMapping(m, ind, tgtp) ==
  IF ~tgtp.ptr \/ Len(ind) = 0 \/ Len(ind) # Len(tgtp.val)
  THEN m
  ELSE MapLoop(m, ind, tgtp.val, 1)

(***************************************************************************)
(* computeSampleDistanceThreshold                                          *)
(***************************************************************************)
RECURSIVE Gcd(_, _)
Gcd(a, b) == IF b = 0 THEN a ELSE Gcd(b, a % b)

Reduce(num, den) ==
  LET g == Gcd(num, den) IN <<num \div g, den \div g>>

RECURSIVE Sum(_)
Sum(s) == IF Len(s) = 0 THEN 0 ELSE Head(s) + Sum(Tail(s))

\* the points of a cloud picked out by an index vector
Select(cloud, ind) == [i \in 1 .. Len(ind) |-> cloud[ind[i] + 1]]

\* (sum of sqrt of the eigenvalues / 3) ^ 2 for a non-empty point sequence:
\* variance / 9 with variance = (n * sum x^2 - (sum x)^2) / n^2
Threshold(pts) ==
  LET n == Len(pts)
      sq == [i \in 1 .. n |-> pts[i] * pts[i]]
  IN Reduce(n * Sum(sq) - Sum(pts) * Sum(pts), 9 * n * n)

\* With no point at all the covariance matrix is never written before its
\* eigenvalues are taken: the threshold is then whatever was in memory.
UninitThresholds == { <<0, 1>>, <<1, 1>> }

\* the values computeSampleDistanceThreshold can store for a point sequence
ThresholdOutcomes(pts) ==
  IF Len(pts) = 0 THEN UninitThresholds ELSE { Threshold(pts) }

(***************************************************************************)
(* Base class SampleConsensusModel                                         *)
(***************************************************************************)
\* indices_ after SampleConsensusModel::setInputCloud: an empty index vector
\* is filled with every point of the cloud, a non-empty one is kept
BaseSetInputCloud(ind, cloud) ==
  IF Len(ind) = 0 THEN Iota(Len(cloud)) ELSE ind

\* indices_ after SampleConsensusModel (cloud, indices): an index vector
\* longer than the cloud is cleared
BaseCtorIndices(cloud, ind) ==
  IF Len(ind) > Len(cloud) THEN <<>> ELSE ind

\* the record of a call that hands nothing back
Called(name) == [op |-> name, coeff |-> <<>>, arg |-> 0, val |-> <<>>]

(***************************************************************************)
(* Constructors                                                            *)
(***************************************************************************)
\* SampleConsensusModelNonRigid (cloud)
Ctor(cloud) ==
  /\ input_ = cloud
  /\ indices_ = BaseSetInputCloud(BaseSetInputCloud(<<>>, cloud), cloud)
  /\ target_ = Null
  /\ indices_tgt_ = Null
  /\ correspondences_ = computeOriginalIndexMapping(EmptyMap, indices_, Null)
  /\ sample_dist_thresh_ \in ThresholdOutcomes(cloud)
  /\ call = Called("ctor")

\* SampleConsensusModelNonRigid (cloud, indices)
CtorIndices(cloud, ind) ==
  /\ input_ = cloud
  /\ indices_ = BaseCtorIndices(cloud, ind)
  /\ target_ = Null
  /\ indices_tgt_ = Null
  /\ correspondences_ = computeOriginalIndexMapping(EmptyMap, indices_, Null)
  /\ sample_dist_thresh_ \in ThresholdOutcomes(Select(cloud, ind))
  /\ call = Called("ctorIndices")

Init ==
  \E cloud \in Clouds :
    \/ Ctor(cloud)
    \/ \E ind \in IndexVectors(cloud) : CtorIndices(cloud, ind)

(***************************************************************************)
(* Configuration methods                                                   *)
(***************************************************************************)
\* setInputCloud (cloud)
setInputCloud(cloud) ==
  /\ input_' = cloud
  /\ indices_' = BaseSetInputCloud(indices_, cloud)
  /\ correspondences_' =
       computeOriginalIndexMapping(correspondences_, indices_', indices_tgt_)
  /\ sample_dist_thresh_' \in ThresholdOutcomes(cloud)
  /\ call' = Called("setInputCloud")
  /\ UNCHANGED <<target_, indices_tgt_>>

\* variant: the index mapping is not rebuilt after the target changed
setInputTarget_NoRemap(target) ==
  /\ target_' = Ptr(target)
  /\ indices_tgt_' = Ptr(Iota(Len(target)))
  /\ call' = Called("setInputTarget")
  /\ UNCHANGED <<input_, indices_, sample_dist_thresh_, correspondences_>>

\* variant: the sample distance threshold is re-estimated from the target
setInputTarget_RecomputesThreshold(target) ==
  /\ target_' = Ptr(target)
  /\ indices_tgt_' = Ptr(Iota(Len(target)))
  /\ correspondences_' =
       computeOriginalIndexMapping(correspondences_, indices_, indices_tgt_')
  /\ sample_dist_thresh_' \in ThresholdOutcomes(target)
  /\ call' = Called("setInputTarget")
  /\ UNCHANGED <<input_, indices_>>

\* setInputTarget (target)
setInputTarget(target) ==
  /\ target_' = Ptr(target)
  /\ indices_tgt_' = Ptr(Iota(Len(target)))
  /\ correspondences_' =
       computeOriginalIndexMapping(correspondences_, indices_, indices_tgt_')
  /\ call' = Called("setInputTarget")
  /\ UNCHANGED <<input_, indices_, sample_dist_thresh_>>

\* setInputTarget (target, indices_tgt)
setInputTargetIndices(target, ind) ==
  /\ target_' = Ptr(target)
  /\ indices_tgt_' = Ptr(ind)
  /\ correspondences_' =
       computeOriginalIndexMapping(correspondences_, indices_, indices_tgt_')
  /\ call' = Called("setInputTargetIndices")
  /\ UNCHANGED <<input_, indices_, sample_dist_thresh_>>

SetInputCloudStep == \E cloud \in Clouds : setInputCloud(cloud)

SetInputTargetStep == \E target \in Clouds : setInputTarget(target)

SetInputTargetIndicesStep ==
  \E target \in Clouds : \E ind \in IndexVectors(target) :
    setInputTargetIndices(target, ind)

Next ==
  \/ SetInputCloudStep
  \/ SetInputTargetStep
  \/ SetInputTargetIndicesStep

Spec == Init /\ [][Next]_vars

(***************************************************************************)
(* Scoring methods.  sac_non_rigid.h only declares them; they are modelled *)
(* from the design document (sections 4.1, 4.5, 4.6).  A coefficient       *)
(* vector is a sequence of integers, read row by row as a 4x4 matrix.      *)
(***************************************************************************)
\* number of entries of a 4x4 transformation
ModelSize == 16

\* x' = x
Identity16 == <<1, 0, 0, 0,  0, 1, 0, 0,  0, 0, 1, 0,  0, 0, 0, 1>>

\* x' = x + 1
Shift16 == <<1, 0, 0, 1,  0, 1, 0, 0,  0, 0, 1, 0,  0, 0, 0, 1>>

\* the coefficient vectors callers pass in: two of 16 entries, and vectors
\* of 0, 15 and 17 entries
Coefficients ==
  { Identity16, Shift16, <<>>, SubSeq(Identity16, 1, ModelSize - 1),
    Identity16 \o <<1>> }

\* the distance thresholds callers pass in
Thresholds == {0, 1}

\* the source indices callers look up
LookupKeys == {0, 1, 2}

\* variant: a vector with more than 16 entries passes as well
isModelValid_AtLeast(c) == Len(c) >= ModelSize

\* isModelValid (model_coefficients)
isModelValid(c) == Len(c) = ModelSize

\* variant: map[k], which hands back a default 0 for an absent key
Lookup_Default(m, k) == IF k \in DOMAIN m THEN <<m[k]>> ELSE <<0>>

\* the correspondence of source index k: <<v>>, or <<>> for "none"
Lookup(m, k) == IF k \in DOMAIN m THEN <<m[k]>> ELSE <<>>

\* every point the scoring loop reads exists
ScoringDefined ==
  \A i \in 1 .. Len(indices_) :
    indices_[i] \in DOMAIN correspondences_ =>
      /\ indices_[i] < Len(input_)
      /\ target_.ptr
      /\ correspondences_[indices_[i]] < Len(target_.val)

\* squared distance between the transformed source point k and target point v
Residual2(c, k, v) ==
  LET x == input_[k + 1]
      tx == target_.val[v + 1]
      dx == c[1] * x + c[4] - tx
      dy == c[5] * x + c[8]
      dz == c[9] * x + c[12]
  IN dx * dx + dy * dy + dz * dz

RECURSIVE DistLoop(_, _)
DistLoop(c, i) ==
  IF i > Len(indices_) THEN <<>>
  ELSE LET v == Lookup(correspondences_, indices_[i])
       IN (IF v = <<>> THEN <<>> ELSE <<Residual2(c, indices_[i], v[1])>>)
            \o DistLoop(c, i + 1)

\* getDistancesToModel (model_coefficients, distances): the squared residual
\* of every source index that has a correspondence
getDistancesToModel(c) == IF ~isModelValid(c) THEN <<>> ELSE DistLoop(c, 1)

RECURSIVE SelectLoop(_, _, _)
SelectLoop(c, t, i) ==
  IF i > Len(indices_) THEN <<>>
  ELSE LET v == Lookup(correspondences_, indices_[i])
       IN (IF v # <<>> /\ Residual2(c, indices_[i], v[1]) <= t * t
           THEN <<indices_[i]>> ELSE <<>>)
            \o SelectLoop(c, t, i + 1)

\* selectWithinDistance (model_coefficients, threshold, inliers)
selectWithinDistance(c, t) ==
  IF ~isModelValid(c) THEN <<>> ELSE SelectLoop(c, t, 1)

RECURSIVE CountLoop(_, _, _)
CountLoop(c, t, i) ==
  IF i > Len(indices_) THEN 0
  ELSE LET v == Lookup(correspondences_, indices_[i])
       IN (IF v # <<>> /\ Residual2(c, indices_[i], v[1]) <= t * t
           THEN 1 ELSE 0)
            + CountLoop(c, t, i + 1)

RECURSIVE CountLoopStrict(_, _, _)
CountLoopStrict(c, t, i) ==
  IF i > Len(indices_) THEN 0
  ELSE LET v == Lookup(correspondences_, indices_[i])
       IN (IF v # <<>> /\ Residual2(c, indices_[i], v[1]) < t * t
           THEN 1 ELSE 0)
            + CountLoopStrict(c, t, i + 1)

\* variant: a residual equal to the threshold is not counted
countWithinDistance_Strict(c, t) ==
  IF ~isModelValid(c) THEN 0 ELSE CountLoopStrict(c, t, 1)

\* countWithinDistance (model_coefficients, threshold)
countWithinDistance(c, t) ==
  IF ~isModelValid(c) THEN 0 ELSE CountLoop(c, t, 1)

ScoringOps ==
  {"getDistancesToModel", "selectWithinDistance", "countWithinDistance",
   "lookup"}

Configuration ==
  <<input_, indices_, target_, indices_tgt_, correspondences_,
    sample_dist_thresh_>>

GetDistancesToModelStep ==
  \E c \in Coefficients :
    /\ isModelValid(c) => ScoringDefined
    /\ call' = [op |-> "getDistancesToModel", coeff |-> c, arg |-> 0,
                val |-> getDistancesToModel(c)]
    /\ UNCHANGED Configuration

SelectWithinDistanceStep ==
  \E c \in Coefficients : \E t \in Thresholds :
    /\ isModelValid(c) => ScoringDefined
    /\ call' = [op |-> "selectWithinDistance", coeff |-> c, arg |-> t,
                val |-> selectWithinDistance(c, t)]
    /\ UNCHANGED Configuration

CountWithinDistanceStep ==
  \E c \in Coefficients : \E t \in Thresholds :
    /\ isModelValid(c) => ScoringDefined
    /\ call' = [op |-> "countWithinDistance", coeff |-> c, arg |-> t,
                val |-> <<countWithinDistance(c, t)>>]
    /\ UNCHANGED Configuration

\* variant: the lookup is map[k], which also inserts the absent key
LookupStep_Inserting(k) ==
  /\ call' = [op |-> "lookup", coeff |-> <<>>, arg |-> k,
              val |-> Lookup_Default(correspondences_, k)]
  /\ correspondences_' =
       IF k \in DOMAIN correspondences_ THEN correspondences_
       ELSE Put(correspondences_, k, 0)
  /\ UNCHANGED <<input_, indices_, target_, indices_tgt_, sample_dist_thresh_>>

\* the correspondence of one source index is looked up
LookupStep(k) ==
  /\ call' = [op |-> "lookup", coeff |-> <<>>, arg |-> k,
              val |-> Lookup(correspondences_, k)]
  /\ UNCHANGED Configuration

NextScore ==
  \/ SetInputCloudStep
  \/ SetInputTargetStep
  \/ SetInputTargetIndicesStep
  \/ GetDistancesToModelStep
  \/ SelectWithinDistanceStep
  \/ CountWithinDistanceStep
  \/ \E k \in LookupKeys : LookupStep(k)

SpecScore == Init /\ [][NextScore]_vars

(***************************************************************************)
(* Properties of the index mapping and of the threshold                    *)
(***************************************************************************)
\* the source and target index vectors cannot be paired position by position
Unpaired ==
  \/ ~indices_tgt_.ptr
  \/ Len(indices_) = 0
  \/ Len(indices_) # Len(indices_tgt_.val)

\* the last position of ind that holds the index k
LastPos(ind, k) ==
  CHOOSE i \in 1 .. Len(ind) :
    /\ ind[i] = k
    /\ \A j \in (i + 1) .. Len(ind) : ind[j] # k

\* every active source index is a point of the source cloud
IndicesInRange == \A i \in 1 .. Len(indices_) : indices_[i] < Len(input_)

\* C1: whenever the source and target index vectors are empty, unset or of
\* unequal length, the correspondence mapping is empty.
C1_EmptyWhenUnpaired == Unpaired => DOMAIN correspondences_ = {}

\* C2: every entry k -> v of the mapping is justified by the current index
\* vectors: some position i has indices_[i] = k and indices_tgt_[i] = v.
C2_EntriesJustified ==
  \A k \in DOMAIN correspondences_ :
    /\ indices_tgt_.ptr
    /\ \E i \in 1 .. Len(indices_) :
         /\ i <= Len(indices_tgt_.val)
         /\ indices_[i] = k
         /\ indices_tgt_.val[i] = correspondences_[k]

\* C3 as stated: when both index vectors are non-empty and of equal length,
\* every position i has its source index mapped to the target index at i.
C3_EveryPositionMapped ==
  ~Unpaired =>
    \A i \in 1 .. Len(indices_) :
      /\ indices_[i] \in DOMAIN correspondences_
      /\ correspondences_[indices_[i]] = indices_tgt_.val[i]

\* C3 as amended: when both index vectors are non-empty and of equal length,
\* every source index is mapped to the target index at the LAST position
\* where that source index occurs.
C3_LastPositionWins ==
  ~Unpaired =>
    \A i \in 1 .. Len(indices_) :
      /\ indices_[i] \in DOMAIN correspondences_
      /\ correspondences_[indices_[i]] =
           indices_tgt_.val[LastPos(indices_, indices_[i])]

\* a source index occurs twice, with two different targets, and is mapped
C3_Witness ==
  /\ ~Unpaired
  /\ call.op = "setInputTargetIndices"
  /\ \E i, j \in 1 .. Len(indices_) :
       /\ i < j
       /\ indices_[i] = indices_[j]
       /\ indices_tgt_.val[i] # indices_tgt_.val[j]
       /\ correspondences_[indices_[i]] = indices_tgt_.val[j]

\* C4: the stored threshold is the threshold of the current input cloud
\* restricted to its current active index vector.
C4_ThresholdOfActiveSubset ==
  (Len(indices_) > 0 /\ IndicesInRange) =>
    sample_dist_thresh_ = Threshold(Select(input_, indices_))

\* C5: after setInputTarget (target) the target index vector is 0 .. n-1 in
\* order, and if the source index vector is every source point and the two
\* clouds have the same size, the mapping sends every source index to itself.
C5_IdentityMapping ==
  call.op = "setInputTarget" =>
    /\ indices_tgt_.ptr
    /\ Len(indices_tgt_.val) = Len(target_.val)
    /\ \A i \in 1 .. Len(indices_tgt_.val) : indices_tgt_.val[i] = i - 1
    /\ ( ( /\ Len(indices_) = Len(input_)
           /\ \A i \in 1 .. Len(indices_) : indices_[i] = i - 1
           /\ Len(input_) = Len(target_.val) )
         => /\ DOMAIN correspondences_ = PointIndices(input_)
            /\ \A k \in DOMAIN correspondences_ : correspondences_[k] = k )

\* two source points, two target points, identity mapping after setInputTarget
C5_Witness ==
  /\ call.op = "setInputTarget"
  /\ Len(input_) = 2
  /\ indices_ = <<0, 1>>
  /\ Len(target_.val) = 2
  /\ correspondences_[0] = 0
  /\ correspondences_[1] = 1

\* C9: the mapping depends only on the current index vectors, not on the
\* calls that led to them: it is the mapping a model holds that was given
\* these index vectors directly.
C9_HistoryIndependent ==
  correspondences_ = computeOriginalIndexMapping(EmptyMap, indices_, indices_tgt_)

\* C10: setting the target leaves the source cloud, the source indices and
\* the threshold alone; setting the source cloud leaves the target cloud and
\* the target indices alone (and the source indices too, unless they were
\* empty and are filled with every point of the new cloud).
C10_Frame ==
  [][ /\ (call'.op \in {"setInputTarget", "setInputTargetIndices"}
            => /\ input_' = input_
               /\ indices_' = indices_
               /\ sample_dist_thresh_' = sample_dist_thresh_)
      /\ (call'.op = "setInputCloud"
            => /\ target_' = target_
               /\ indices_tgt_' = indices_tgt_
               /\ (indices_' = indices_ \/ Len(indices_) = 0)) ]_vars

\* a target was set on a model whose threshold is not the target's, and the
\* mapping was rebuilt
C10_Witness ==
  /\ call.op = "setInputTarget"
  /\ Len(target_.val) = 2
  /\ sample_dist_thresh_ # Threshold(target_.val)
  /\ DOMAIN correspondences_ # {}

C7_LookupPure ==
  [][ call'.op \in ScoringOps =>
        /\ correspondences_' = correspondences_
        /\ ( (call'.op = "lookup" /\ call'.arg \notin DOMAIN correspondences_)
               => call'.val = <<>> ) ]_vars

\* an absent index was looked up in a mapping that is not empty
C7_Witness ==
  /\ call.op = "lookup"
  /\ call.arg \notin DOMAIN correspondences_
  /\ call.val = <<>>
  /\ DOMAIN correspondences_ # {}

\* C8: for every 16-entry coefficient vector c and every threshold t,
\* countWithinDistance (c, t) is the number of indices that
\* selectWithinDistance (c, t) hands back.
C8_CountIsSizeOfSelect ==
  /\ ScoringDefined =>
       \A c \in Coefficients : \A t \in Thresholds :
         isModelValid(c) =>
           countWithinDistance(c, t) = Len(selectWithinDistance(c, t))
  /\ (call.op = "countWithinDistance" /\ isModelValid(call.coeff))
       => call.val = <<Len(selectWithinDistance(call.coeff, call.arg))>>

\* a valid model was counted, some but not all mapped indices are inliers,
\* and one residual is exactly the threshold
C8_Witness ==
  /\ call.op = "countWithinDistance"
  /\ isModelValid(call.coeff)
  /\ call.arg = 1
  /\ call.val = <<1>>
  /\ Len(getDistancesToModel(call.coeff)) = 2
  /\ \E i \in 1 .. 2 : getDistancesToModel(call.coeff)[i] = 1

=============================================================================
